---- MODULE Spec2Model ----
(***************************************************************************)
(* Model of EnhancedSystemOrchestrator                                     *)
(* (src/core/system_orchestrator_enhanced.py): the component registry,     *)
(* get_startup_order, check_component_dependencies, start_component,       *)
(* stop_component, restart_component, start_all, monitor_loop, stop_all    *)
(* and shutdown.                                                           *)
(*                                                                         *)
(* The supervised OS processes are the environment: a running process may  *)
(* exit at any time, a spawn may raise, a freshly spawned process may have *)
(* exited when it is polled after the startup delay, a stop may raise, and *)
(* the port / health endpoint of a live process may or may not answer.     *)
(*                                                                         *)
(* The registry is an input of the model: the dictionary literal of        *)
(* __init__ is one registry, the operations are written for any. The       *)
(* public methods are called one at a time (the orchestrator has a single  *)
(* thread of control), in any sequence (Spec). SpecMain is one run of      *)
(* main() for the action `start`: start_all, then monitor_loop inside      *)
(* try / finally, with SIGINT / SIGTERM delivered to the handler that      *)
(* __init__ installs.                                                      *)
(***************************************************************************)
EXTENDS Integers, Sequences, FiniteSets, TLC

\* ------------------------------------------------------------------ bounds
\* Largest startup_delay a registry of the model gives a component.
MaxDelay == 1
\* Largest restart_count the environment lets an entry reach (an entry keeps
\* its count only when stop_component raises, see RestartStopOutcomes).
MaxCount == 3
\* Saturation point of the history counter auto_restarts.
MaxAuto == 4
\* Most signals the environment delivers in one run of main.
MaxSignals == 2

\* ------------------------------------------------------------- registry
\* Component names of the registry (keys of self.components).
Names == {"a", "b", "c"}
\* A name that is no key of self.components.
Absent == "x"
\* Every name a dependency list or a caller may mention.
AnyName == Names \cup {Absent}
Policies == {"always", "on_failure", "manual"}
\* The ceiling of the on_failure branch of monitor_loop.
RestartLimit == 3

VARIABLES
    components,         \* self.components: name -> component configuration
    script_exists,      \* name -> whether (base_path / script).exists()
    processes,          \* self.processes: the dict, as the sequence of its entries in insertion order
    running,            \* self.running
    pc,                 \* where control is: "idle" or inside a method
    caller,             \* who called get_startup_order: "api" or "start_all"
    ordered,            \* get_startup_order: local `ordered`
    remaining,          \* get_startup_order: local `remaining`
    reported,           \* the set logged by "Circular or missing dependencies detected", {} if none
    startup_order,      \* the list the last get_startup_order returned
    order_i,            \* start_all: index of the next element of startup_order
    failed_components,  \* start_all / monitor_loop: local `failed_components`
    sa_started,         \* history: names whose start_component returned True in the current start_all
    mon_queue,          \* monitor_loop: what is left of list(self.processes.keys())
    auto_restarts,      \* history: name -> restarts monitor_loop made under on_failure since n was last probed healthy
    stop_queue,         \* stop_all: what is left of the reversed list(self.processes.keys())
    stop_log,           \* history: the names the current stop_all has called stop_component on, in order
    stop_from,          \* history: start_order as it was when the current stop_all began
    start_order,        \* history: the components holding an entry, by their latest successful start
    unrecovered,        \* history: names monitor_loop restarted without success, without an entry since
    mon_unhealthy,      \* history: the critical names the current monitor iteration probed unhealthy
    live,               \* history: name -> how many processes spawned for it are running
    phase,              \* where main() is: "api" when the methods are called freely
    in_try,             \* main() is inside the try whose finally calls shutdown
    signals,            \* history: the signals delivered so far
    shutdowns,          \* history: how many times shutdown() has been entered
    to_stop,            \* history: the keys of self.processes when a signal last interrupted monitor_loop
    interrupted,        \* history: the call a signal arrived in the middle of, and its component
    last                \* history: what the last step did and returned

vars == <<components, script_exists, processes, running, pc, caller, ordered,
          remaining, reported, startup_order, order_i, failed_components,
          sa_started, mon_queue, auto_restarts, stop_queue, stop_log,
          stop_from, start_order, unrecovered, mon_unhealthy, live, phase, in_try,
          signals, shutdowns, to_stop, interrupted, last>>

registryVars == <<components, script_exists>>
resolverVars == <<caller, ordered, remaining, reported, startup_order>>
loopVars == <<order_i, failed_components, sa_started, mon_queue>>
stopVars == <<stop_queue, stop_log, stop_from>>
histVars == <<start_order, unrecovered, mon_unhealthy, live>>
mainVars == <<phase, in_try, signals, shutdowns, to_stop, interrupted>>

\* ------------------------------------------------------------- helpers
Range(s) == {s[i] : i \in 1..Len(s)}

\* All orders in which a finite set can be enumerated.
Perms(S) ==
    {s \in [1..Cardinality(S) -> S] : \A x \in S : \E i \in 1..Cardinality(S) : s[i] = x}

\* component.get('dependencies', [])
Deps(n) == components[n].dependencies

\* `optional` and script missing: removed by get_startup_order, skipped by start_component
Excluded(n) == n \in Names /\ components[n].optional /\ ~script_exists[n]

Active == {n \in Names : ~Excluded(n)}

\* op: the step; name: the component it acted on; ret: what the call returned;
\* spawned: subprocess.Popen returned a process; unhealthy: the probe of the
\* monitor step failed; restarted: the monitor step called restart_component;
\* alert: the critical_failed list of a finished monitor iteration; err: why
\* start_component returned False ("" if it did not); sent, grace: what a
\* stop_component call sent to the process and what its wait(timeout=10) saw;
\* port_ok, http_ok, layers: what the network would answer to a
\* check_component_health call and the checks the call made; report, probed:
\* the <<name, status>> pairs of a get_system_status report and the
\* <<name, verdict>> pairs of the health checks it made.
\* status['summary'] as get_system_status initialises it, but for
\* total_components.
NoSummary ==
    [total_components |-> 0, running_components |-> 0, healthy_components |-> 0,
     critical_components_running |-> 0, total_critical_components |-> 0]

\* No call has been interrupted.
NoCall == [op |-> "none", name |-> Absent]

NoEvent == [op |-> "none", name |-> Absent, ret |-> FALSE, spawned |-> FALSE,
            unhealthy |-> FALSE, restarted |-> FALSE, alert |-> {}, err |-> "",
            sent |-> <<>>, grace |-> "none", port_ok |-> FALSE,
            http_ok |-> FALSE, layers |-> <<>>, report |-> {}, probed |-> {},
            summary |-> NoSummary]

\* ------------------------------------------------- get_startup_order
\* The comprehension of the while body: components of `remaining` whose every
\* dependency is ordered or not in remaining.
\* (variant: `dep in remaining` for `dep not in remaining`)
ReadyInRemaining(rem, ord) ==
    {n \in rem : \A d \in Deps(n) : d \in Range(ord) \/ d \in rem}

\* (variant: only an ordered dependency counts as met)
ReadyOrderedOnly(rem, ord) ==
    {n \in rem : \A d \in Deps(n) : d \in Range(ord)}

Ready(rem, ord) ==
    {n \in rem : \A d \in Deps(n) : d \in Range(ord) \/ d \notin rem}

\* ready.sort(key=startup_delay): `ready` is built by iterating a set, whose
\* order is arbitrary; the sort is stable and orders by delay alone.
Sorts(S) ==
    {s \in Perms(S) :
        \A i, j \in 1..Len(s) :
            i < j => components[s[i]].startup_delay <= components[s[j]].startup_delay}

\* (variant: the optional components whose script is missing stay in)
BeginOrderKeepsExcluded(who) ==
    /\ caller' = who
    /\ ordered' = <<>>
    /\ remaining' = Names
    /\ reported' = {}
    /\ startup_order' = <<>>
    /\ pc' = "resolving"

\* Entry of get_startup_order: ordered = [], remaining = the keys minus the
\* optional components whose script does not exist.
BeginOrder(who) ==
    /\ caller' = who
    /\ ordered' = <<>>
    /\ remaining' = Active
    /\ reported' = {}
    /\ startup_order' = <<>>
    /\ pc' = "resolving"

GetStartupOrder ==
    /\ UNCHANGED mainVars
    /\ UNCHANGED <<stopVars, histVars>>
    /\ pc = "idle"
    /\ BeginOrder("api")
    /\ last' = [NoEvent EXCEPT !.op = "get_startup_order"]
    /\ UNCHANGED <<registryVars, processes, running, loopVars, auto_restarts>>

\* One pass of `while remaining`.
ResolveRound ==
    /\ UNCHANGED mainVars
    /\ UNCHANGED <<stopVars, histVars>>
    /\ pc = "resolving"
    /\ remaining # {}
    /\ LET ready == Ready(remaining, ordered) IN
         IF ready = {}
         THEN /\ reported' = remaining
              /\ startup_order' = ordered
              /\ pc' = IF caller = "start_all" THEN "starting" ELSE "idle"
              /\ last' = [NoEvent EXCEPT !.op = "order_returned"]
              /\ UNCHANGED <<ordered, remaining>>
         ELSE /\ \E s \in Sorts(ready) : ordered' = ordered \o s
              /\ remaining' = remaining \ ready
              /\ UNCHANGED <<reported, startup_order, pc, last>>
    /\ UNCHANGED <<registryVars, processes, running, caller, loopVars,
                   auto_restarts>>

\* `while remaining` falls through: return ordered.
ResolveReturn ==
    /\ UNCHANGED mainVars
    /\ UNCHANGED <<stopVars, histVars>>
    /\ pc = "resolving"
    /\ remaining = {}
    /\ startup_order' = ordered
    /\ pc' = IF caller = "start_all" THEN "starting" ELSE "idle"
    /\ last' = [NoEvent EXCEPT !.op = "order_returned"]
    /\ UNCHANGED <<registryVars, processes, running, caller, ordered, remaining,
                   reported, loopVars, auto_restarts>>

\* ------------------------------------------------------ self.processes
\* The names of the dict's entries.
Keys(procs) == {procs[i].name : i \in 1..Len(procs)}

InMap(procs, n) == n \in Keys(procs)

\* self.processes[n]
Entry(procs, n) == procs[CHOOSE i \in 1..Len(procs) : procs[i].name = n]

\* del self.processes[n]
Without(procs, n) == SelectSeq(procs, LAMBDA e : e.name # n)

\* The entry start_component records after Popen: the process is running,
\* restart_count is 0.
NewEntry(n) == [name |-> n, alive |-> TRUE, restart_count |-> 0]

\* list(self.processes.keys())
KeyList(procs) == [i \in 1..Len(procs) |-> procs[i].name]

\* self.processes[n]['restart_count'] += 1
CountBumped(procs, n) ==
    [i \in 1..Len(procs) |->
        IF procs[i].name = n
        THEN [procs[i] EXCEPT !.restart_count = @ + 1]
        ELSE procs[i]]

\* process.poll() is None, for the process of entry n
Alive(procs, n) == InMap(procs, n) /\ Entry(procs, n).alive

\* ------------------------------------------ check_component_dependencies
\* (variant: a dependency only has to be in the dict)
DependenciesInMap(procs, n) ==
    \A d \in Deps(n) : InMap(procs, d)

check_component_dependencies(procs, n) ==
    \A d \in Deps(n) : InMap(procs, d) /\ Entry(procs, d).alive

\* ------------------------------------------------------- start_component
\* What the environment can do to a spawn, and to a stop.
SpawnOutcomes == {"ok", "raises"}
StopOutcomes == {"graceful", "forced", "error"}

\* start_component(n) on the dict procs. spawn: whether Popen returns or
\* raises; stays: whether the new process is still running when it is polled
\* after the startup delay. Gives the dict afterwards, the return value,
\* whether a process was spawned, and the error logged.
Result(procs, ret, spawned, err) ==
    [procs |-> procs, ret |-> ret, spawned |-> spawned, err |-> err,
     reaped |-> FALSE]

\* (variant: a name already in the dict is started again)
start_component_respawns(procs, n, spawn, stays) ==
    IF n \notin Names
    THEN Result(procs, FALSE, FALSE, "UnknownComponent")
    ELSE IF ~script_exists[n]
    THEN IF components[n].optional
         THEN Result(procs, TRUE, FALSE, "")
         ELSE Result(procs, FALSE, FALSE, "MissingExecutable")
    ELSE IF ~check_component_dependencies(procs, n)
    THEN Result(procs, FALSE, FALSE, "DependencyNotReady")
    ELSE IF spawn = "raises"
    THEN Result(procs, FALSE, FALSE, "SpawnError")
    ELSE IF stays
    THEN Result(Append(Without(procs, n), NewEntry(n)), TRUE, TRUE, "")
    ELSE Result(Without(procs, n), FALSE, TRUE, "StartupFailed")

\* (variant: a missing script fails the start even of an optional component)
start_component_no_skip(procs, n, spawn, stays) ==
    IF InMap(procs, n)
    THEN Result(procs, TRUE, FALSE, "")
    ELSE IF n \notin Names
    THEN Result(procs, FALSE, FALSE, "UnknownComponent")
    ELSE IF ~script_exists[n]
    THEN Result(procs, FALSE, FALSE, "MissingExecutable")
    ELSE IF ~check_component_dependencies(procs, n)
    THEN Result(procs, FALSE, FALSE, "DependencyNotReady")
    ELSE IF spawn = "raises"
    THEN Result(procs, FALSE, FALSE, "SpawnError")
    ELSE IF stays
    THEN Result(Append(procs, NewEntry(n)), TRUE, TRUE, "")
    ELSE Result(Without(Append(procs, NewEntry(n)), n), FALSE, TRUE, "StartupFailed")

\* (variant: the process is not polled after the startup delay)
start_component_unpolled(procs, n, spawn, stays) ==
    IF InMap(procs, n)
    THEN Result(procs, TRUE, FALSE, "")
    ELSE IF n \notin Names
    THEN Result(procs, FALSE, FALSE, "UnknownComponent")
    ELSE IF ~script_exists[n]
    THEN IF components[n].optional
         THEN Result(procs, TRUE, FALSE, "")
         ELSE Result(procs, FALSE, FALSE, "MissingExecutable")
    ELSE IF ~check_component_dependencies(procs, n)
    THEN Result(procs, FALSE, FALSE, "DependencyNotReady")
    ELSE IF spawn = "raises"
    THEN Result(procs, FALSE, FALSE, "SpawnError")
    ELSE Result(Append(procs, [NewEntry(n) EXCEPT !.alive = stays]), TRUE, TRUE, "")

start_component(procs, n, spawn, stays) ==
    IF InMap(procs, n)
    THEN Result(procs, TRUE, FALSE, "")
    ELSE IF n \notin Names
    THEN Result(procs, FALSE, FALSE, "UnknownComponent")
    ELSE IF ~script_exists[n]
    THEN IF components[n].optional
         THEN Result(procs, TRUE, FALSE, "")
         ELSE Result(procs, FALSE, FALSE, "MissingExecutable")
    ELSE IF ~check_component_dependencies(procs, n)
    THEN Result(procs, FALSE, FALSE, "DependencyNotReady")
    ELSE IF spawn = "raises"
    THEN Result(procs, FALSE, FALSE, "SpawnError")
    ELSE IF stays
    THEN Result(Append(procs, NewEntry(n)), TRUE, TRUE, "")
    ELSE Result(Without(Append(procs, NewEntry(n)), n), FALSE, TRUE, "StartupFailed")

\* -------------------------------------------------------- stop_component
\* out: the process ends within the grace period, or is killed after it, or
\* terminate / wait / kill raises (the except branch, which keeps the entry).
\* Gives the dict afterwards, the return value, the signals sent to the
\* process (terminate(), kill()), whether a wait() on the process returned
\* (reaped: the process is known to have ended), and what wait(timeout=10)
\* saw (grace: the process "exited" in time, the period "expired", or "none"
\* when the call did not get there or raised otherwise).
Stopped(procs, ret, sent, reaped) ==
    [procs |-> procs, ret |-> ret, sent |-> sent, reaped |-> reaped,
     grace |-> IF ~reaped THEN "none"
               ELSE IF sent = <<"terminate">> THEN "exited"
               ELSE "expired"]

\* (variant: the except branch deletes the entry too)
stop_component_always_deletes(procs, n, out) ==
    IF ~InMap(procs, n)
    THEN Stopped(procs, TRUE, <<>>, FALSE)
    ELSE IF out = "error"
    THEN Stopped(Without(procs, n), FALSE, <<"terminate">>, FALSE)
    ELSE IF out = "graceful"
    THEN Stopped(Without(procs, n), TRUE, <<"terminate">>, TRUE)
    ELSE Stopped(Without(procs, n), TRUE, <<"terminate", "kill">>, TRUE)

\* (variant: kill() follows terminate() without waiting for the grace period)
stop_component_kills_at_once(procs, n, out) ==
    IF ~InMap(procs, n)
    THEN Stopped(procs, TRUE, <<>>, FALSE)
    ELSE IF out = "error"
    THEN Stopped(procs, FALSE, <<"terminate">>, FALSE)
    ELSE [Stopped(Without(procs, n), TRUE, <<"terminate", "kill">>, TRUE) EXCEPT
             !.grace = IF out = "graceful" THEN "exited" ELSE "expired"]

\* (variant: the entries of the components that depend on n go with it)
stop_component_cascades(procs, n, out) ==
    IF ~InMap(procs, n)
    THEN Stopped(procs, TRUE, <<>>, FALSE)
    ELSE IF out = "error"
    THEN Stopped(procs, FALSE, <<"terminate">>, FALSE)
    ELSE Stopped(SelectSeq(procs, LAMBDA e : e.name # n /\ n \notin Deps(e.name)),
                 TRUE,
                 IF out = "graceful" THEN <<"terminate">> ELSE <<"terminate", "kill">>,
                 TRUE)

stop_component(procs, n, out) ==
    IF ~InMap(procs, n)
    THEN Stopped(procs, TRUE, <<>>, FALSE)
    ELSE IF out = "error"
    THEN Stopped(procs, FALSE, <<"terminate">>, FALSE)
    ELSE IF out = "graceful"
    THEN Stopped(Without(procs, n), TRUE, <<"terminate">>, TRUE)
    ELSE Stopped(Without(procs, n), TRUE, <<"terminate", "kill">>, TRUE)

\* ----------------------------------------------------- restart_component
restart_component(procs, n, out, spawn, stays) ==
    LET counted == IF InMap(procs, n) THEN CountBumped(procs, n) ELSE procs
        stopped == stop_component(counted, n, out)
    IN  [start_component(stopped.procs, n, spawn, stays) EXCEPT
            !.reaped = stopped.reaped]

\* The stop outcomes the model lets the environment choose: stop_component
\* raises only for the components of StopMayRaise, and inside a restart no
\* longer once the entry's restart_count has reached MaxCount.
StopMayRaise == {"c"}

StopOutcomesOf(n) ==
    IF n \in StopMayRaise THEN StopOutcomes ELSE StopOutcomes \ {"error"}

RestartStopOutcomes(procs, n) ==
    IF InMap(procs, n) /\ Entry(procs, n).restart_count >= MaxCount
    THEN StopOutcomes \ {"error"}
    ELSE StopOutcomesOf(n)

\* Everything start_component / stop_component / restart_component can come
\* to on the dict procs, over the choices of the environment.
StartResults(procs, n) ==
    {start_component(procs, n, spawn, stays) :
        spawn \in SpawnOutcomes, stays \in BOOLEAN}

StopResults(procs, n) ==
    {stop_component(procs, n, out) : out \in StopOutcomesOf(n)}

RestartResults(procs, n) ==
    {restart_component(procs, n, out, spawn, stays) :
        out \in RestartStopOutcomes(procs, n), spawn \in SpawnOutcomes,
        stays \in BOOLEAN}

\* ------------------------------------------------ check_component_health
\* port_ok: connect_ex to the port returns 0; http_ok: the GET of the health
\* endpoint answers 200.
\* The verdict, and the checks that were made to reach it, in order: "poll"
\* (process.poll()), "port" (connect_ex), "http" (requests.get).
Probed(healthy, layers) == [healthy |-> healthy, layers |-> layers]

\* (variant: every declared check is made, whatever the earlier ones gave)
health_checks_all_layers(procs, n, port_ok, http_ok) ==
    IF ~InMap(procs, n) THEN Probed(FALSE, <<>>)
    ELSE LET has_port == components[n].port
             has_http == components[n].health_endpoint /\ components[n].port
         IN  Probed(/\ Entry(procs, n).alive
                    /\ has_port => port_ok
                    /\ has_http => http_ok,
                    <<"poll">> \o (IF has_port THEN <<"port">> ELSE <<>>)
                               \o (IF has_http THEN <<"http">> ELSE <<>>))

health_checks(procs, n, port_ok, http_ok) ==
    IF ~InMap(procs, n) THEN Probed(FALSE, <<>>)
    ELSE IF ~Entry(procs, n).alive THEN Probed(FALSE, <<"poll">>)
    ELSE LET has_port == components[n].port
             has_http == components[n].health_endpoint /\ components[n].port
             to_port  == IF has_port THEN <<"poll", "port">> ELSE <<"poll">>
         IN  IF has_port /\ ~port_ok THEN Probed(FALSE, to_port)
             ELSE IF has_http THEN Probed(http_ok, Append(to_port, "http"))
             ELSE Probed(TRUE, to_port)

check_component_health(procs, n, port_ok, http_ok) ==
    health_checks(procs, n, port_ok, http_ok).healthy

\* Every verdict the probe can give, over what the network answers.
ProbeResults(procs, n) ==
    {check_component_health(procs, n, port_ok, http_ok) : port_ok, http_ok \in BOOLEAN}

\* ------------------------------------------------------------- history
\* start_order after a call on n that left the dict procs: a successful
\* spawn makes n the latest started; a name without an entry is not listed.
StartOrderAfter(order, n, procs, started) ==
    LET others == SelectSeq(order, LAMBDA x : x # n) IN
    IF started THEN Append(others, n)
    ELSE IF InMap(procs, n) THEN order
    ELSE others

\* unrecovered after a call on n that left the dict procs; by_monitor: the
\* call was the restart_component of a monitor step.
UnrecoveredAfter(unrec, n, procs, by_monitor) ==
    IF InMap(procs, n) THEN unrec \ {n}
    ELSE IF by_monitor THEN unrec \cup {n}
    ELSE unrec

\* live after a call on n: a process that was running and has been waited
\* for is gone, a process spawned and found running after the delay is new.
LiveAfter(lv, n, was_alive, reaped, started) ==
    IF n \notin Names THEN lv
    ELSE [lv EXCEPT ![n] = (IF was_alive /\ reaped THEN @ - 1 ELSE @)
                           + (IF started THEN 1 ELSE 0)]

\* The history of a call on n that left the dict procs.
Recorded(n, procs, started, by_monitor, reaped) ==
    /\ start_order' = StartOrderAfter(start_order, n, procs, started)
    /\ unrecovered' = UnrecoveredAfter(unrecovered, n, procs, by_monitor)
    /\ live' = LiveAfter(live, n, Alive(processes, n), reaped, started)

\* --------------------------------------------------------- the API calls
StartComponent(n) ==
    /\ UNCHANGED mainVars
    /\ pc = "idle"
    /\ \E r \in StartResults(processes, n) :
           /\ processes' = r.procs
           /\ Recorded(n, r.procs, r.spawned /\ r.ret, FALSE, r.reaped)
           /\ last' = [NoEvent EXCEPT !.op = "start_component", !.name = n,
                                      !.ret = r.ret, !.spawned = r.spawned,
                                      !.err = r.err]
    /\ UNCHANGED <<registryVars, running, pc, resolverVars, loopVars, auto_restarts,
                   stopVars, mon_unhealthy>>

StopComponent(n) ==
    /\ UNCHANGED mainVars
    /\ pc = "idle"
    /\ \E r \in StopResults(processes, n) :
           /\ processes' = r.procs
           /\ Recorded(n, r.procs, FALSE, FALSE, r.reaped)
           /\ last' = [NoEvent EXCEPT !.op = "stop_component", !.name = n,
                                      !.ret = r.ret, !.sent = r.sent,
                                      !.grace = r.grace]
    /\ UNCHANGED <<registryVars, running, pc, resolverVars, loopVars, auto_restarts,
                   stopVars, mon_unhealthy>>

RestartComponent(n) ==
    /\ UNCHANGED mainVars
    /\ pc = "idle"
    /\ \E r \in RestartResults(processes, n) :
           /\ processes' = r.procs
           /\ Recorded(n, r.procs, r.spawned /\ r.ret, FALSE, r.reaped)
           /\ last' = [NoEvent EXCEPT !.op = "restart_component", !.name = n,
                                      !.ret = r.ret, !.spawned = r.spawned,
                                      !.err = r.err]
    /\ UNCHANGED <<registryVars, running, pc, resolverVars, loopVars, auto_restarts,
                   stopVars, mon_unhealthy>>

\* The environment: the process of a running component exits on its own.
ProcessExits(n) ==
    /\ UNCHANGED mainVars
    /\ UNCHANGED <<stopVars, start_order, unrecovered, mon_unhealthy>>
    /\ Alive(processes, n)
    /\ live' = [live EXCEPT ![n] = @ - 1]
    /\ processes' = [i \in 1..Len(processes) |->
                        IF processes[i].name = n
                        THEN [processes[i] EXCEPT !.alive = FALSE]
                        ELSE processes[i]]
    /\ last' = [NoEvent EXCEPT !.op = "process_exits", !.name = n]
    /\ UNCHANGED <<registryVars, running, pc, resolverVars, loopVars, auto_restarts>>

\* ------------------------------------------------------------- queries
\* (variant: the probe deletes the entry of a process that has exited)
CheckHealthReaping(n) ==
    /\ pc = "idle"
    /\ \E port_ok, http_ok \in BOOLEAN :
         LET r == health_checks(processes, n, port_ok, http_ok) IN
         last' = [NoEvent EXCEPT !.op = "check_health", !.name = n,
                                 !.ret = r.healthy, !.layers = r.layers,
                                 !.port_ok = port_ok, !.http_ok = http_ok]
    /\ processes' = IF InMap(processes, n) /\ ~Alive(processes, n)
                    THEN Without(processes, n)
                    ELSE processes
    /\ UNCHANGED <<registryVars, running, pc, resolverVars, loopVars,
                   auto_restarts, stopVars, histVars, mainVars>>

\* check_component_health(n), called on its own.
CheckHealth(n) ==
    /\ pc = "idle"
    /\ \E port_ok, http_ok \in BOOLEAN :
         LET r == health_checks(processes, n, port_ok, http_ok) IN
         last' = [NoEvent EXCEPT !.op = "check_health", !.name = n,
                                 !.ret = r.healthy, !.layers = r.layers,
                                 !.port_ok = port_ok, !.http_ok = http_ok]
    /\ UNCHANGED <<registryVars, processes, running, pc, resolverVars, loopVars,
                   auto_restarts, stopVars, histVars, mainVars>>

\* check_component_dependencies(n), called on its own.
CheckDependencies(n) ==
    /\ pc = "idle"
    /\ last' = [NoEvent EXCEPT !.op = "check_dependencies", !.name = n,
                               !.ret = check_component_dependencies(processes, n)]
    /\ UNCHANGED <<registryVars, processes, running, pc, resolverVars, loopVars,
                   auto_restarts, stopVars, histVars, mainVars>>

\* The status get_system_status gives a component; health: the verdict of
\* the health check it makes for a component whose process is running.
StatusOf(procs, n, health) ==
    IF ~InMap(procs, n) THEN "not_running"
    ELSE IF ~Entry(procs, n).alive THEN "stopped"
    ELSE IF health THEN "healthy"
    ELSE "unhealthy"

\* status['summary'] of get_system_status: total_components is
\* len(self.components); the other counters are incremented in the loop,
\* which skips the optional components whose script does not exist.
Summary(procs, health) ==
    [total_components |-> Cardinality(Names),
     running_components |-> Cardinality({n \in Active : Alive(procs, n)}),
     healthy_components |->
        Cardinality({n \in Active : Alive(procs, n) /\ health[n]}),
     critical_components_running |->
        Cardinality({n \in Active : Alive(procs, n) /\ components[n].critical}),
     total_critical_components |->
        Cardinality({n \in Active : components[n].critical})]

\* (variant: optional components whose script is missing are listed too)
get_system_status_all_names(procs, health) ==
    [report |-> {<<n, StatusOf(procs, n, health[n])>> : n \in Names},
     probed |-> {<<n, health[n]>> : n \in {m \in Names : Alive(procs, m)}},
     summary |-> Summary(procs, health)]

\* status['components'] of get_system_status: the loop skips the optional
\* components whose script does not exist.
get_system_status(procs, health) ==
    [report |-> {<<n, StatusOf(procs, n, health[n])>> : n \in Active},
     probed |-> {<<n, health[n]>> : n \in {m \in Active : Alive(procs, m)}},
     summary |-> Summary(procs, health)]

\* The verdicts the health checks of one report can give.
HealthVerdicts(procs) ==
    {h \in [Names -> BOOLEAN] : \A n \in Names : h[n] \in ProbeResults(procs, n)}

StatusResults(procs) ==
    {get_system_status(procs, h) : h \in HealthVerdicts(procs)}

\* get_system_status(), called on its own (the `status` command).
GetSystemStatus ==
    /\ pc = "idle"
    /\ \E r \in StatusResults(processes) :
         last' = [NoEvent EXCEPT !.op = "status", !.report = r.report,
                                 !.probed = r.probed, !.summary = r.summary]
    /\ UNCHANGED <<registryVars, processes, running, pc, resolverVars, loopVars,
                   auto_restarts, stopVars, histVars, mainVars>>

\* -------------------------------------------------------------- start_all
\* startup_order = self.get_startup_order(); failed_components = []
EnterStartAll ==
    /\ UNCHANGED <<stopVars, histVars>>
    /\ pc = "idle"
    /\ BeginOrder("start_all")
    /\ order_i' = 1
    /\ failed_components' = <<>>
    /\ sa_started' = {}
    /\ last' = [NoEvent EXCEPT !.op = "start_all_begin"]
    /\ UNCHANGED <<registryVars, processes, running, mon_queue, auto_restarts>>

StartAllBegin ==
    /\ EnterStartAll
    /\ UNCHANGED mainVars

\* start_all is over: its locals are gone.
StartAllLocalsDropped ==
    /\ pc' = "idle"
    /\ ordered' = <<>>
    /\ remaining' = {}
    /\ reported' = {}
    /\ startup_order' = <<>>
    /\ order_i' = 1
    /\ failed_components' = <<>>
    /\ sa_started' = {}
    /\ UNCHANGED caller

\* (variant: a failed critical component does not end the loop)
StartAllStepNoAbort ==
    /\ UNCHANGED mainVars
    /\ pc = "starting"
    /\ order_i <= Len(startup_order)
    /\ LET n == startup_order[order_i] IN
       \E r \in StartResults(processes, n) :
           /\ processes' = r.procs
           /\ Recorded(n, r.procs, r.spawned /\ r.ret, FALSE, r.reaped)
           /\ order_i' = order_i + 1
           /\ sa_started' = IF r.ret THEN sa_started \cup {n} ELSE sa_started
           /\ failed_components' =
                IF r.ret THEN failed_components ELSE Append(failed_components, n)
           /\ last' = [NoEvent EXCEPT !.op = "start_all_step", !.name = n,
                                      !.ret = r.ret, !.spawned = r.spawned,
                                      !.err = r.err]
           /\ UNCHANGED <<pc, resolverVars>>
    /\ UNCHANGED <<registryVars, running, mon_queue, auto_restarts, stopVars,
                   mon_unhealthy>>

\* (variant: the failure of a non-critical component is not recorded)
StartAllStepNoRecord ==
    /\ UNCHANGED mainVars
    /\ pc = "starting"
    /\ order_i <= Len(startup_order)
    /\ LET n == startup_order[order_i] IN
       \E r \in StartResults(processes, n) :
           /\ processes' = r.procs
           /\ Recorded(n, r.procs, r.spawned /\ r.ret, FALSE, r.reaped)
           /\ IF ~r.ret /\ components[n].critical
              THEN /\ StartAllLocalsDropped
                   /\ last' = [NoEvent EXCEPT !.op = "start_all", !.name = n,
                                              !.ret = FALSE, !.spawned = r.spawned,
                                              !.err = r.err]
              ELSE /\ order_i' = order_i + 1
                   /\ sa_started' = IF r.ret THEN sa_started \cup {n} ELSE sa_started
                   /\ last' = [NoEvent EXCEPT !.op = "start_all_step", !.name = n,
                                              !.ret = r.ret, !.spawned = r.spawned,
                                              !.err = r.err]
                   /\ UNCHANGED <<pc, resolverVars, failed_components>>
    /\ UNCHANGED <<registryVars, running, mon_queue, auto_restarts, stopVars,
                   mon_unhealthy>>

\* One pass of the for loop: start_component on the next name of the order;
\* on failure the name is appended to failed_components and, if the
\* component is critical, start_all returns False at once.
StartAllStep ==
    /\ UNCHANGED mainVars
    /\ pc = "starting"
    /\ order_i <= Len(startup_order)
    /\ LET n == startup_order[order_i] IN
       \E r \in StartResults(processes, n) :
           /\ processes' = r.procs
           /\ Recorded(n, r.procs, r.spawned /\ r.ret, FALSE, r.reaped)
           /\ IF r.ret
              THEN /\ order_i' = order_i + 1
                   /\ sa_started' = sa_started \cup {n}
                   /\ last' = [NoEvent EXCEPT !.op = "start_all_step", !.name = n,
                                              !.ret = TRUE, !.spawned = r.spawned,
                                              !.err = r.err]
                   /\ UNCHANGED <<pc, resolverVars, failed_components>>
              ELSE IF components[n].critical
              THEN /\ StartAllLocalsDropped
                   /\ last' = [NoEvent EXCEPT !.op = "start_all", !.name = n,
                                              !.ret = FALSE, !.spawned = r.spawned,
                                              !.err = r.err]
              ELSE /\ order_i' = order_i + 1
                   /\ failed_components' = Append(failed_components, n)
                   /\ last' = [NoEvent EXCEPT !.op = "start_all_step", !.name = n,
                                              !.ret = FALSE, !.spawned = r.spawned,
                                              !.err = r.err]
                   /\ UNCHANGED <<pc, resolverVars, sa_started>>
    /\ UNCHANGED <<registryVars, running, mon_queue, auto_restarts, stopVars,
                   mon_unhealthy>>

\* The loop is exhausted: return len(failed_components) == 0.
StartAllReturn ==
    /\ UNCHANGED mainVars
    /\ UNCHANGED <<stopVars, histVars>>
    /\ pc = "starting"
    /\ order_i > Len(startup_order)
    /\ StartAllLocalsDropped
    /\ last' = [NoEvent EXCEPT !.op = "start_all", !.ret = (Len(failed_components) = 0)]
    /\ UNCHANGED <<registryVars, processes, running, mon_queue, auto_restarts>>

\* ----------------------------------------------------------- monitor_loop
\* The branch of monitor_loop for an unhealthy component: whether it calls
\* restart_component (otherwise the name goes to failed_components).
\* (variant: manual is restarted like always)
ShouldRestartManualToo(policy, count) ==
    \/ policy \in {"always", "manual"}
    \/ policy = "on_failure" /\ count < RestartLimit

ShouldRestart(policy, count) ==
    \/ policy = "always"
    \/ policy = "on_failure" /\ count < RestartLimit

\* `while self.running`: failed_components = [], the keys are listed.
MonitorBegin ==
    /\ UNCHANGED mainVars
    /\ pc = "idle"
    /\ running
    /\ mon_queue' = KeyList(processes)
    /\ failed_components' = <<>>
    /\ pc' = "monitoring"
    /\ mon_unhealthy' = {}
    /\ last' = [NoEvent EXCEPT !.op = "monitor_begin"]
    /\ UNCHANGED <<registryVars, processes, running, resolverVars, order_i,
                   sa_started, auto_restarts, stopVars, start_order, unrecovered, live>>

\* One pass of `for component_name in list(self.processes.keys())`. A name
\* that has left the dict since the keys were listed makes
\* self.processes[component_name] raise: the except branch of the loop logs
\* it and the iteration is over.
MonitorStep ==
    /\ UNCHANGED mainVars
    /\ pc = "monitoring"
    /\ mon_queue # <<>>
    /\ LET n == Head(mon_queue) IN
       IF ~InMap(processes, n)
       THEN /\ pc' = "idle"
            /\ mon_queue' = <<>>
            /\ failed_components' = <<>>
            /\ mon_unhealthy' = {}
            /\ last' = [NoEvent EXCEPT !.op = "monitor_error", !.name = n,
                                       !.unhealthy = TRUE]
            /\ UNCHANGED <<processes, auto_restarts, start_order, unrecovered, live>>
       ELSE
       \E healthy \in ProbeResults(processes, n) :
         LET policy  == components[n].restart_policy
             count   == Entry(processes, n).restart_count
             restart == ~healthy /\ ShouldRestart(policy, count)
         IN
         \E r \in IF restart THEN RestartResults(processes, n)
                   ELSE {Result(processes, FALSE, FALSE, "")} :
           /\ pc' = pc
           /\ mon_queue' = Tail(mon_queue)
           /\ processes' = IF restart THEN r.procs ELSE processes
           /\ IF restart
              THEN Recorded(n, r.procs, r.spawned /\ r.ret, TRUE, r.reaped)
              ELSE UNCHANGED <<start_order, unrecovered, live>>
           /\ mon_unhealthy' =
                IF ~healthy /\ components[n].critical
                THEN mon_unhealthy \cup {n}
                ELSE mon_unhealthy
           /\ failed_components' =
                IF healthy \/ restart THEN failed_components
                ELSE Append(failed_components, n)
           /\ auto_restarts' =
                IF healthy THEN [auto_restarts EXCEPT ![n] = 0]
                ELSE IF restart /\ policy = "on_failure" /\ auto_restarts[n] < MaxAuto
                THEN [auto_restarts EXCEPT ![n] = @ + 1]
                ELSE auto_restarts
           /\ last' = [NoEvent EXCEPT !.op = "monitor_step", !.name = n,
                                      !.unhealthy = ~healthy, !.restarted = restart,
                                      !.ret = restart /\ r.ret,
                                      !.spawned = restart /\ r.spawned,
                                      !.err = r.err]
    /\ UNCHANGED <<registryVars, running, resolverVars, order_i, sa_started,
                   stopVars>>

\* (variant: the exception leaves the loop)
MonitorRaisesEndsLoop ==
    /\ UNCHANGED mainVars
    /\ pc = "monitoring"
    /\ pc' = "down"
    /\ mon_queue' = <<>>
    /\ failed_components' = <<>>
    /\ mon_unhealthy' = {}
    /\ last' = [NoEvent EXCEPT !.op = "monitor_error",
                               !.err = "Error in monitoring loop"]
    /\ UNCHANGED <<registryVars, processes, running, resolverVars, order_i,
                   sa_started, auto_restarts, stopVars, start_order, unrecovered,
                   live>>

\* An exception other than KeyboardInterrupt is raised somewhere in the try
\* block of an iteration (a print or a log call that fails, say): the
\* `except Exception` branch logs it and sleeps, and control is back at
\* `while self.running`. The locals of the iteration are gone.
MonitorRaises ==
    /\ UNCHANGED mainVars
    /\ pc = "monitoring"
    /\ pc' = "idle"
    /\ mon_queue' = <<>>
    /\ failed_components' = <<>>
    /\ mon_unhealthy' = {}
    /\ last' = [NoEvent EXCEPT !.op = "monitor_error",
                               !.err = "Error in monitoring loop"]
    /\ UNCHANGED <<registryVars, processes, running, resolverVars, order_i,
                   sa_started, auto_restarts, stopVars, start_order, unrecovered,
                   live>>

\* (variant: every name of failed_components is alerted)
MonitorEndAlertsAll ==
    /\ UNCHANGED mainVars
    /\ pc = "monitoring"
    /\ mon_queue = <<>>
    /\ last' = [NoEvent EXCEPT !.op = "monitor_iteration",
                  !.alert = Range(failed_components)]
    /\ failed_components' = <<>>
    /\ mon_unhealthy' = {}
    /\ pc' = "idle"
    /\ UNCHANGED <<registryVars, processes, running, resolverVars, order_i,
                   sa_started, mon_queue, auto_restarts, stopVars, start_order,
                   unrecovered, live>>

\* The end of an iteration: the critical names of failed_components are
\* alerted, then the loop sleeps.
MonitorEnd ==
    /\ UNCHANGED mainVars
    /\ pc = "monitoring"
    /\ mon_queue = <<>>
    /\ last' = [NoEvent EXCEPT !.op = "monitor_iteration",
                  !.alert = {c \in Range(failed_components) : components[c].critical}]
    /\ failed_components' = <<>>
    /\ mon_unhealthy' = {}
    /\ pc' = "idle"
    /\ UNCHANGED <<registryVars, processes, running, resolverVars, order_i,
                   sa_started, mon_queue, auto_restarts, stopVars, start_order,
                   unrecovered, live>>

\* ---------------------------------------------------- stop_all, shutdown
Reverse(s) == [i \in 1..Len(s) |-> s[Len(s) + 1 - i]]

\* (variant: the keys are not reversed)
StopAllOrderForward(procs) == KeyList(procs)

\* components = list(self.processes.keys()); components.reverse()
StopAllOrder(procs) == Reverse(KeyList(procs))

\* Entry of stop_all.
BeginStopAll ==
    /\ stop_queue' = StopAllOrder(processes)
    /\ stop_log' = <<>>
    /\ stop_from' = KeyList(processes)
    /\ pc' = "stopping"

\* stop_all(), called on its own (the `stop` command).
StopAll ==
    /\ UNCHANGED mainVars
    /\ pc = "idle"
    /\ BeginStopAll
    /\ last' = [NoEvent EXCEPT !.op = "stop_all_begin"]
    /\ UNCHANGED <<registryVars, processes, running, resolverVars, loopVars,
                   auto_restarts, histVars>>

\* shutdown(): self.running = False, then stop_all().
Shutdown ==
    /\ pc = "idle"
    /\ running
    /\ running' = FALSE
    /\ shutdowns' = shutdowns + 1
    /\ BeginStopAll
    /\ last' = [NoEvent EXCEPT !.op = "shutdown_begin"]
    /\ UNCHANGED <<phase, in_try, signals, to_stop, interrupted>>
    /\ UNCHANGED <<registryVars, processes, resolverVars, loopVars, auto_restarts,
                   histVars>>

\* stop_all is over: its locals are gone. After shutdown the program ends.
StopAllLocalsDropped ==
    /\ pc' = IF running THEN "idle" ELSE "down"
    /\ stop_queue' = <<>>
    /\ stop_log' = <<>>
    /\ stop_from' = <<>>

\* (variant: a stop_component that returns False ends the loop)
StopAllStepAbortOnFailure ==
    /\ UNCHANGED mainVars
    /\ pc = "stopping"
    /\ stop_queue # <<>>
    /\ LET n == Head(stop_queue) IN
       \E r \in StopResults(processes, n) :
           /\ processes' = r.procs
           /\ Recorded(n, r.procs, FALSE, FALSE, r.reaped)
           /\ IF r.ret
              THEN /\ stop_queue' = Tail(stop_queue)
                   /\ stop_log' = Append(stop_log, n)
                   /\ last' = [NoEvent EXCEPT !.op = "stop_all_step", !.name = n,
                                              !.ret = r.ret]
                   /\ UNCHANGED <<pc, stop_from>>
              ELSE /\ StopAllLocalsDropped
                   /\ last' = [NoEvent EXCEPT
                                 !.op = IF running THEN "stop_all" ELSE "shutdown"]
    /\ UNCHANGED <<registryVars, running, resolverVars, loopVars, auto_restarts,
                   mon_unhealthy>>

\* One pass of `for component_name in components`: stop_component, whose
\* return value is ignored.
StopAllStep ==
    /\ UNCHANGED mainVars
    /\ pc = "stopping"
    /\ stop_queue # <<>>
    /\ LET n == Head(stop_queue) IN
       \E r \in StopResults(processes, n) :
           /\ processes' = r.procs
           /\ Recorded(n, r.procs, FALSE, FALSE, r.reaped)
           /\ stop_queue' = Tail(stop_queue)
           /\ stop_log' = Append(stop_log, n)
           /\ last' = [NoEvent EXCEPT !.op = "stop_all_step", !.name = n,
                                      !.ret = r.ret]
    /\ UNCHANGED <<registryVars, running, pc, resolverVars, loopVars, auto_restarts,
                   stop_from, mon_unhealthy>>

\* The loop is exhausted: "All components stopped".
StopAllReturn ==
    /\ UNCHANGED mainVars
    /\ pc = "stopping"
    /\ stop_queue = <<>>
    /\ StopAllLocalsDropped
    /\ last' = [NoEvent EXCEPT !.op = IF running THEN "stop_all" ELSE "shutdown"]
    /\ UNCHANGED <<registryVars, processes, running, resolverVars, loopVars,
                   auto_restarts, histVars>>

\* ------------------------------------------------------------ registries
\* port / health_endpoint: whether the configuration has the key.
Component(deps, crit, pol, delay, opt) ==
    [dependencies |-> deps, critical |-> crit, restart_policy |-> pol,
     startup_delay |-> delay, optional |-> opt, port |-> FALSE,
     health_endpoint |-> FALSE]

WithPort(c, port, endpoint) ==
    [c EXCEPT !.port = port, !.health_endpoint = endpoint]

\* Registries of the resolver specification: every dependency relation over
\* the names and every assignment of delays; "a" may name a dependency that
\* is no component; "a" or "b" may be optional (its script missing, see
\* InitResolver). The resolver treats all names alike, so which component
\* carries these is immaterial.
ResolverRegistries ==
    {[n \in Names |-> Component(d[n] \cup (IF n = m THEN {Absent} ELSE {}),
                                TRUE, "manual", dl[n], n = o)] :
        d \in [Names -> SUBSET Names], m \in {"a", Absent},
        dl \in [Names -> 0..MaxDelay], o \in {"a", "b", Absent}}

InitCommon ==
    /\ processes = <<>>
    /\ running = TRUE
    /\ pc = "idle"
    /\ caller = "api"
    /\ ordered = <<>>
    /\ remaining = {}
    /\ reported = {}
    /\ startup_order = <<>>
    /\ order_i = 1
    /\ failed_components = <<>>
    /\ sa_started = {}
    /\ mon_queue = <<>>
    /\ auto_restarts = [n \in Names |-> 0]
    /\ stop_queue = <<>>
    /\ stop_log = <<>>
    /\ stop_from = <<>>
    /\ start_order = <<>>
    /\ unrecovered = {}
    /\ mon_unhealthy = {}
    /\ live = [n \in Names |-> 0]
    /\ in_try = FALSE
    /\ signals = 0
    /\ shutdowns = 0
    /\ to_stop = {}
    /\ interrupted = NoCall
    /\ last = NoEvent

InitResolver ==
    /\ components \in ResolverRegistries
    /\ script_exists = [n \in Names |-> ~components[n].optional]
    /\ phase = "api"
    /\ InitCommon

\* Installations of the supervision specification: a registry and the
\* scripts on disk. In all of them "a" restarts always and has no port, "b"
\* is manual and has a port, "c" has a port and a health endpoint.
\*   Chain:    a <- b <- c (c also depends on a); c critical and restarted
\*             always or manual, or b critical;
\*   Cycle:    b and c depend on each other, a is free;
\*   Skipped:  a is optional and its script is missing, b depends on a, c is
\*             critical and restarted on_failure;
\*   NoScript: the chain, the script of b (not optional) missing, a or b
\*             critical.
ChainDeps == [n \in Names |-> IF n = "a" THEN {} ELSE IF n = "b" THEN {"a"} ELSE {"a", "b"}]
CycleDeps == [n \in Names |-> IF n = "a" THEN {} ELSE IF n = "b" THEN {"c"} ELSE {"b"}]
SkipDeps  == [n \in Names |-> IF n = "b" THEN {"a"} ELSE {}]

Registry(deps, crit, polc, opt) ==
    [n \in Names |->
        IF n = "a" THEN Component(deps[n], n = crit, "always", 0, n = opt)
        ELSE IF n = "b" THEN WithPort(Component(deps[n], n = crit, "manual", 1, n = opt), TRUE, FALSE)
        ELSE WithPort(Component(deps[n], n = crit, polc, 0, n = opt), TRUE, TRUE)]

AllScripts == [n \in Names |-> TRUE]

Installations ==
    {[components |-> Registry(ChainDeps, "c", polc, Absent), scripts |-> AllScripts] :
        polc \in {"always", "manual"}}
    \cup {[components |-> Registry(ChainDeps, "b", "always", Absent), scripts |-> AllScripts]}
    \cup {[components |-> Registry(CycleDeps, "c", "always", Absent), scripts |-> AllScripts]}
    \cup {[components |-> Registry(SkipDeps, "c", "on_failure", "a"),
           scripts |-> [AllScripts EXCEPT !["a"] = FALSE]]}
    \cup {[components |-> Registry(ChainDeps, crit, "always", Absent),
           scripts |-> [AllScripts EXCEPT !["b"] = FALSE]] : crit \in {"a", "b"}}

Init ==
    /\ \E inst \in Installations :
         /\ components = inst.components
         /\ script_exists = inst.scripts
    /\ phase = "api"
    /\ InitCommon

Next ==
    \/ \E n \in AnyName : StartComponent(n)
    \/ \E n \in AnyName : StopComponent(n)
    \/ \E n \in AnyName : RestartComponent(n)
    \/ \E n \in Names : ProcessExits(n)
    \/ StartAllBegin
    \/ ResolveRound
    \/ ResolveReturn
    \/ StartAllStep
    \/ StartAllReturn
    \/ MonitorBegin
    \/ MonitorStep
    \/ MonitorEnd
    \/ MonitorRaises
    \/ StopAll
    \/ Shutdown
    \/ StopAllStep
    \/ StopAllReturn

Spec == Init /\ [][Next]_vars

NextResolver == GetStartupOrder \/ ResolveRound \/ ResolveReturn

SpecResolver == InitResolver /\ [][NextResolver]_vars

FairSpecResolver == SpecResolver /\ WF_vars(ResolveRound) /\ WF_vars(ResolveReturn)

\* The methods that change self.processes and the methods that only read it,
\* called in any sequence.
NextQuery ==
    \/ \E n \in AnyName : StartComponent(n)
    \/ \E n \in AnyName : StopComponent(n)
    \/ \E n \in Names : ProcessExits(n)
    \/ \E n \in AnyName : CheckHealth(n)
    \/ \E n \in Names : CheckDependencies(n)
    \/ GetSystemStatus
    \/ GetStartupOrder
    \/ ResolveRound
    \/ ResolveReturn

SpecQuery == Init /\ [][NextQuery]_vars

\* ------------------------------------------------- main(), action start
\* success = orchestrator.start_all()
MainStartAll ==
    /\ phase = "begin"
    /\ EnterStartAll
    /\ phase' = "start_all"
    /\ UNCHANGED <<in_try, signals, shutdowns, to_stop, interrupted>>

\* `if success:` enters the try and calls monitor_loop; otherwise main
\* returns.
MainAfterStartAll ==
    /\ phase = "start_all"
    /\ pc = "idle"
    /\ phase' = IF last.ret THEN "monitor" ELSE "exited"
    /\ in_try' = last.ret
    /\ pc' = IF last.ret THEN "idle" ELSE "down"
    /\ last' = [NoEvent EXCEPT !.op = "main_after_start_all", !.ret = last.ret]
    /\ UNCHANGED <<registryVars, processes, running, resolverVars, loopVars,
                   auto_restarts, stopVars, histVars, signals, shutdowns,
                   to_stop, interrupted>>

\* `while self.running` of monitor_loop, called by main.
MainMonitorBegin ==
    /\ phase = "monitor"
    /\ MonitorBegin

\* What a frame that will never resume leaves behind.
FrameAbandoned ==
    /\ ordered' = <<>>
    /\ remaining' = {}
    /\ reported' = {}
    /\ startup_order' = <<>>
    /\ order_i' = 1
    /\ failed_components' = <<>>
    /\ sa_started' = {}
    /\ mon_queue' = <<>>
    /\ mon_unhealthy' = {}
    /\ UNCHANGED caller

\* shutdown(), entered from the signal handler or from the finally of main:
\* self.running = False, then stop_all().
EnterShutdown ==
    /\ running' = FALSE
    /\ shutdowns' = shutdowns + 1
    /\ BeginStopAll

\* (variant: the handler clears the running flag and returns to the
\* interrupted frame)
SignalOnlyClearsFlag ==
    /\ phase \in {"start_all", "monitor", "handler", "finally"}
    /\ signals < MaxSignals
    /\ signals' = signals + 1
    /\ running' = FALSE
    /\ last' = [NoEvent EXCEPT !.op = "signal"]
    /\ UNCHANGED <<registryVars, processes, pc, resolverVars, loopVars, auto_restarts,
                   stopVars, histVars, phase, in_try, shutdowns, to_stop,
                   interrupted>>

\* SIGINT or SIGTERM is delivered between two steps of whatever main is
\* doing: signal_handler calls shutdown() (and will then raise SystemExit,
\* so the interrupted frame never resumes).
Signal ==
    /\ phase \in {"start_all", "monitor", "handler", "finally"}
    /\ signals < MaxSignals
    /\ signals' = signals + 1
    /\ phase' = "handler"
    /\ to_stop' = IF phase = "monitor" THEN Keys(processes) ELSE to_stop
    /\ EnterShutdown
    /\ FrameAbandoned
    /\ last' = [NoEvent EXCEPT !.op = "signal"]
    /\ UNCHANGED <<registryVars, processes, auto_restarts, start_order, unrecovered, live,
                   in_try, interrupted>>

\* The signal is delivered inside the start_component that start_all has
\* called, after Popen has returned and before the entry is assigned: the
\* handler's shutdown() finds no entry for the new process, and SystemExit
\* ends the frame that was about to record it.
SignalInStart ==
    /\ phase = "start_all"
    /\ pc = "starting"
    /\ order_i <= Len(startup_order)
    /\ signals < MaxSignals
    /\ LET n == startup_order[order_i] IN
         /\ start_component(processes, n, "ok", TRUE).spawned
         /\ live' = [live EXCEPT ![n] = @ + 1]
         /\ interrupted' = [op |-> "start_component", name |-> n]
         /\ last' = [NoEvent EXCEPT !.op = "signal", !.name = n, !.spawned = TRUE]
    /\ signals' = signals + 1
    /\ phase' = "handler"
    /\ EnterShutdown
    /\ FrameAbandoned
    /\ UNCHANGED <<registryVars, processes, auto_restarts, start_order, unrecovered,
                   in_try, to_stop>>

\* The signal is delivered inside a stop_component, after terminate() and
\* before `del self.processes[component_name]`: the stop_component is the one
\* stop_all has called in a shutdown already under way, or the one of a
\* restart_component of monitor_loop (which has incremented restart_count).
SignalInStop ==
    /\ signals < MaxSignals
    /\ \E n \in Names :
         /\ InMap(processes, n)
         /\ \/ /\ phase \in {"handler", "finally"}
               /\ pc = "stopping"
               /\ stop_queue # <<>>
               /\ n = Head(stop_queue)
               /\ processes' = processes
            \/ /\ phase = "monitor"
               /\ pc = "monitoring"
               /\ mon_queue # <<>>
               /\ n = Head(mon_queue)
               /\ FALSE \in ProbeResults(processes, n)
               /\ ShouldRestart(components[n].restart_policy,
                                Entry(processes, n).restart_count)
               /\ processes' = CountBumped(processes, n)
         /\ interrupted' = [op |-> "stop_component", name |-> n]
         /\ last' = [NoEvent EXCEPT !.op = "signal", !.name = n,
                                    !.sent = <<"terminate">>]
    /\ to_stop' = IF phase = "monitor" THEN Keys(processes) ELSE to_stop
    /\ signals' = signals + 1
    /\ phase' = "handler"
    /\ EnterShutdown
    /\ FrameAbandoned
    /\ UNCHANGED <<registryVars, auto_restarts, start_order, unrecovered, live,
                   in_try>>

\* shutdown() has returned in the handler and sys.exit(0) raises SystemExit;
\* it unwinds main, whose try is still open: the finally clause calls
\* shutdown().
HandlerExitsThroughFinally ==
    /\ phase = "handler"
    /\ pc = "stopping"
    /\ stop_queue = <<>>
    /\ in_try
    /\ in_try' = FALSE
    /\ phase' = "finally"
    /\ EnterShutdown
    /\ last' = [NoEvent EXCEPT !.op = "finally_shutdown"]
    /\ UNCHANGED <<registryVars, processes, resolverVars, loopVars, auto_restarts,
                   histVars, signals, to_stop, interrupted>>

\* The program is over.
Exited ==
    /\ phase' = "exited"
    /\ pc' = "down"
    /\ stop_queue' = <<>>
    /\ stop_log' = <<>>
    /\ stop_from' = <<>>
    /\ last' = [NoEvent EXCEPT !.op = "exit"]
    /\ UNCHANGED <<registryVars, processes, running, resolverVars, loopVars,
                   auto_restarts, histVars, in_try, signals, shutdowns,
                   to_stop, interrupted>>

\* sys.exit(0) in the handler, no try open in main: the interpreter exits.
HandlerExits ==
    /\ phase = "handler"
    /\ pc = "stopping"
    /\ stop_queue = <<>>
    /\ ~in_try
    /\ Exited

\* The shutdown() of the finally clause has returned: SystemExit goes on,
\* the interpreter exits.
FinallyReturns ==
    /\ phase = "finally"
    /\ pc = "stopping"
    /\ stop_queue = <<>>
    /\ Exited

InitMain ==
    /\ \E inst \in Installations :
         /\ components = inst.components
         /\ script_exists = inst.scripts
    /\ phase = "begin"
    /\ InitCommon

NextMain ==
    \/ MainStartAll
    \/ ResolveRound
    \/ ResolveReturn
    \/ StartAllStep
    \/ StartAllReturn
    \/ MainAfterStartAll
    \/ MainMonitorBegin
    \/ MonitorStep
    \/ MonitorEnd
    \/ MonitorRaises
    \/ \E n \in Names : ProcessExits(n)
    \/ Signal
    \/ SignalInStart
    \/ SignalInStop
    \/ StopAllStep
    \/ HandlerExitsThroughFinally
    \/ HandlerExits
    \/ FinallyReturns

SpecMain == InitMain /\ [][NextMain]_vars

\* The interpreter keeps running the handler, stop_all and the finally clause
\* once they have been entered.
FairSpecMain ==
    /\ SpecMain
    /\ WF_vars(StopAllStep)
    /\ WF_vars(HandlerExitsThroughFinally)
    /\ WF_vars(HandlerExits)
    /\ WF_vars(FinallyReturns)

\* ------------------------------------------------ the dependency graph
\* Names reachable from the set S over dependency edges between active
\* components, in at most k steps (S included).
RECURSIVE Closure(_, _)
Closure(S, k) ==
    IF k = 0 THEN S
    ELSE Closure(S \cup {d \in Active : \E n \in S \cap Active : d \in Deps(n)}, k - 1)

\* What n depends on, directly or transitively, among the active components.
Reach(n) == Closure(Deps(n) \cap Active, Cardinality(Names))

OnCycle(n) == n \in Active /\ n \in Reach(n)

HasCycle == \E n \in Active : OnCycle(n)

\* Components that no order can place: on a cycle, or depending on one.
Unschedulable == {n \in Active : OnCycle(n) \/ \E m \in Reach(n) : OnCycle(m)}

\* Every dependency names a component of the registry that is not excluded.
FullyPresent == \A n \in Active : Deps(n) \subseteq Active

\* Position of x in the sequence s (0 if absent).
Pos(s, x) == IF x \in Range(s) THEN CHOOSE i \in 1..Len(s) : s[i] = x ELSE 0

\* get_startup_order has just returned startup_order.
OrderReturned == last.op = "order_returned"

\* ------------------------------------------------------------- claims
\* C1: for an acyclic registry whose dependencies all name existing,
\* non-excluded components, the returned order holds every component at a
\* strictly later position than each of its dependencies.
C1_DepsBefore ==
    (OrderReturned /\ ~HasCycle /\ FullyPresent) =>
        \A n \in Active :
            /\ n \in Range(startup_order)
            /\ \A d \in Deps(n) :
                  Pos(startup_order, d) > 0 /\ Pos(startup_order, d) < Pos(startup_order, n)

\* An order of three components was returned for a chain of dependencies.
C1_Witness ==
    /\ OrderReturned /\ ~HasCycle /\ FullyPresent
    /\ Len(startup_order) = 3
    /\ \E n, m \in Active : m \in Deps(n) /\ Deps(m) # {}

\* C2: resolution terminates, and for a registry with a dependency cycle the
\* set it reports is exactly the set of unschedulable components.
C2_TerminatesAndReports ==
    /\ (pc = "resolving") ~> OrderReturned
    /\ [](OrderReturned /\ HasCycle => reported = Unschedulable)

\* A cycle of two was reported while the third component was ordered.
C2_Witness ==
    /\ OrderReturned /\ HasCycle
    /\ Cardinality(reported) = 2
    /\ Len(startup_order) = 1

\* C4: a non-excluded component that names a dependency which is no
\* component of the registry is reported as unresolved and is not placed in
\* the startup order.
C4_MissingDependencyDetected ==
    OrderReturned =>
        \A n \in Active :
            Absent \in Deps(n) => n \in reported /\ n \notin Range(startup_order)

\* C3: when resolution reports a non-empty unresolved set, start_all spawns
\* no process and returns False.
C3_SchedulingErrorFatal ==
    [][(pc = "starting" /\ reported # {}) =>
          (~last'.spawned /\ (last'.op = "start_all" => ~last'.ret))]_vars

\* C5: start_component of a component that depends on an excluded (optional,
\* script missing) component, all its other dependencies running and alive,
\* does not fail for its dependencies.
C5_ExcludedDependencySatisfied ==
    [][\A n \in Names :
          (/\ last'.op = "start_component" /\ last'.name = n
           /\ \E d \in Deps(n) : Excluded(d)
           /\ \A d \in Deps(n) : ~Excluded(d) => Alive(processes, d))
          => last'.err # "DependencyNotReady"]_vars

\* A step of start_component, restart_component, start_all or monitor_loop
\* that ran start_component(n).
StartEvent(e) == e.op \in {"start_component", "restart_component", "start_all_step",
                           "start_all", "monitor_step"}

\* C6: whenever a step spawns a process for n, every non-excluded dependency
\* of n was in the dict with a live process; and a start_component call that
\* reaches the dependency check with such a dependency missing or dead fails
\* with DependencyNotReady, spawns nothing and leaves the dict as it was.
C6_SpawnNeedsLiveDependencies ==
    [][\A n \in Names :
          /\ (StartEvent(last') /\ last'.name = n /\ last'.spawned) =>
                \A d \in Deps(n) : ~Excluded(d) => (d # n /\ Alive(processes, d))
          /\ (/\ last'.op \in {"start_component", "start_all_step", "start_all"}
              /\ last'.name = n
              /\ ~InMap(processes, n) /\ script_exists[n]
              /\ \E d \in Deps(n) : ~Excluded(d) /\ ~Alive(processes, d))
             => (/\ last'.err = "DependencyNotReady"
                 /\ ~last'.ret /\ ~last'.spawned
                 /\ processes' = processes)]_vars

\* The monitor restarted a component with dependencies and spawned it.
C6_Witness ==
    /\ last.op = "monitor_step" /\ last.restarted /\ last.spawned
    /\ last.name \in Names /\ Cardinality(Deps(last.name)) = 2

\* A start_component call inside start_all failed on a critical component.
CriticalStartFailed(e) ==
    /\ e.op \in {"start_all_step", "start_all"}
    /\ e.name \in Names
    /\ ~e.ret
    /\ components[e.name].critical

\* C7: when the start of a critical component fails in start_all, start_all
\* returns False in that very step (nothing later in the order is attempted),
\* and every entry of the dict, those of the components started earlier
\* included, is still there.
C7_CriticalFailureAborts ==
    [][CriticalStartFailed(last') =>
          /\ pc' = "idle" /\ last'.op = "start_all" /\ ~last'.ret
          /\ last'.name = startup_order[order_i]
          /\ sa_started \subseteq Keys(processes')
          /\ \A i \in 1..Len(processes) : processes[i] \in Range(processes')]_vars

\* start_all was aborted by the critical b, which had been spawned and had
\* exited; a, started before it, is still in the dict.
C7_Witness ==
    /\ last.op = "start_all" /\ last.name = "b" /\ ~last.ret /\ last.spawned
    /\ components["b"].critical
    /\ pc = "idle"
    /\ Keys(processes) = {"a"}

\* C8: when the start of a non-critical component fails in start_all, the
\* name is recorded and the loop goes on to the next component; start_all
\* returns True exactly when it went through the whole order and every
\* start_component call returned True.
C8_NonCriticalFailureContinues ==
    [][/\ (/\ last'.op \in {"start_all_step", "start_all"}
           /\ last'.name \in Names /\ ~last'.ret
           /\ ~components[last'.name].critical)
          => (/\ pc' = "starting"
              /\ order_i' = order_i + 1
              /\ failed_components' = Append(failed_components, last'.name))
       /\ (last'.op = "start_all") =>
             (last'.ret <=> (/\ last'.name = Absent
                             /\ order_i = Len(startup_order) + 1
                             /\ sa_started = Range(startup_order)))]_vars

\* start_all went through the whole order and returned False: a non-critical
\* component had failed.
C8_Witness ==
    /\ last.op = "start_all" /\ last.name = Absent /\ ~last.ret
    /\ Keys(processes) = {"a", "b"}

\* The restart_count of n's entry (0 without an entry).
RestartCount(procs, n) == IF InMap(procs, n) THEN Entry(procs, n).restart_count ELSE 0

\* C9: a monitor step that probes a component with policy always unhealthy
\* restarts it, and leaves its restart counter one higher than before.
C9_AlwaysCounterIncrements ==
    [][\A n \in Names :
          (/\ last'.op = "monitor_step" /\ last'.name = n /\ last'.unhealthy
           /\ components[n].restart_policy = "always")
          => (/\ last'.restarted
              /\ InMap(processes', n) =>
                    RestartCount(processes', n) = RestartCount(processes, n) + 1)]_vars

\* C10: a component with policy on_failure that stays unhealthy is restarted
\* by the monitor at most 3 times.
C10_OnFailureCeiling ==
    \A n \in Names :
        components[n].restart_policy = "on_failure" => auto_restarts[n] <= RestartLimit

\* C11: no step leaves a component that has an entry before and after it
\* with a lower restart counter than it had.
C11_CounterNeverDecreases ==
    [][\A n \in Names :
          (InMap(processes, n) /\ InMap(processes', n))
          => RestartCount(processes', n) >= RestartCount(processes, n)]_vars

\* A monitor step has probed n, of the given policy, unhealthy.
ProbedUnhealthy(e, n, policy) ==
    /\ e.op = "monitor_step"
    /\ e.name = n
    /\ e.unhealthy
    /\ components[n].restart_policy = policy

\* C13: a monitor step that probes a component with policy manual unhealthy
\* calls no restart, appends the name to failed_components and leaves
\* self.processes (entries, processes and restart counters) as it was.
C13_ManualNotRestarted ==
    [][\A n \in Names :
          ProbedUnhealthy(last', n, "manual")
          => (/\ ~last'.restarted
              /\ ~last'.spawned
              /\ processes' = processes
              /\ failed_components' = Append(failed_components, n))]_vars

\* A manual component whose process is running was probed unhealthy.
C13_Witness ==
    \E n \in Names :
        /\ ProbedUnhealthy(last, n, "manual")
        /\ Alive(processes, n)
        /\ n \in Range(failed_components)

\* C14: the iteration that ends alerts if and only if its failed_components
\* holds a critical component.
C14_AlertIffCriticalFailed ==
    [][last'.op = "monitor_iteration"
          => (last'.alert # {}
                <=> \E c \in Range(failed_components) : components[c].critical)]_vars

\* An iteration ended with an alert.
C14_Witness ==
    last.op = "monitor_iteration" /\ last.alert # {}

\* C19: when stop_component has returned, the component has no entry in
\* self.processes, whatever terminate, wait and kill did.
C19_StopAlwaysRemoves ==
    last.op = "stop_component" => ~InMap(processes, last.name)

\* C20: a start_component call that spawned a process returns True only if
\* the process was running when polled after the delay, and then the entry
\* is in self.processes; otherwise it returns False with StartupFailed and
\* the component has no entry.
C20_StartVerifiedAfterDelay ==
    [][(last'.op = "start_component" /\ last'.spawned)
          => LET n == last'.name IN
             IF last'.ret
             THEN /\ Alive(processes', n)
                  /\ processes' = Append(processes, NewEntry(n))
             ELSE /\ ~InMap(processes', n)
                  /\ processes' = processes
                  /\ last'.err = "StartupFailed"]_vars

\* A spawned process had exited when polled: StartupFailed.
C20_Witness ==
    /\ last.op = "start_component"
    /\ last.spawned
    /\ ~last.ret
    /\ last.err = "StartupFailed"
    /\ ~InMap(processes, last.name)

\* C12: every monitor iteration that begins is going to probe (and so to
\* restart) each component with policy always that an earlier iteration
\* found unhealthy and did not bring back, whatever attempts failed before.
C12_AlwaysRetriedEveryIteration ==
    [][last'.op = "monitor_begin"
          => \A n \in unrecovered :
                components[n].restart_policy = "always" => n \in Range(mon_queue')]_vars

\* C15: an iteration in which a critical component was probed unhealthy ends
\* with an alert naming it, whatever the component's restart policy.
C15_CriticalFailureAlerts ==
    [][last'.op = "monitor_iteration" => mon_unhealthy \subseteq last'.alert]_vars

C17_EveryComponentAttempted ==
    [][last'.op \in {"stop_all", "shutdown"}
          => Range(stop_from) \subseteq Range(stop_log)]_vars

\* shutdown went on to stop b and a after the stop of c had failed.
C17_Witness ==
    /\ pc = "stopping"
    /\ ~running
    /\ stop_queue = <<>>
    /\ stop_log = <<"c", "b", "a">>
    /\ InMap(processes, "c")
    /\ ~InMap(processes, "a")
    /\ ~InMap(processes, "b")

\* C18: in a run of main, however many signals arrive and wherever they
\* arrive, shutdown() is entered at most once.
C18_ShutdownOnce ==
    shutdowns <= 1

\* The step returned ret with error err, spawned nothing and left
\* self.processes as it was.
NoOpStart(ret, err) ==
    /\ last'.ret = ret
    /\ last'.err = err
    /\ ~last'.spawned
    /\ processes' = processes

\* C21: start_component returns True without doing anything for a name
\* already in self.processes; otherwise False (UnknownComponent) for a name
\* that is no component; otherwise, when the script does not exist, True for
\* an optional component and False (MissingExecutable) for any other. In
\* all four cases nothing is spawned and self.processes is unchanged.
C21_StartEarlyReturns ==
    [][last'.op = "start_component"
          => LET n == last'.name IN
             IF InMap(processes, n) THEN NoOpStart(TRUE, "")
             ELSE IF n \notin Names THEN NoOpStart(FALSE, "UnknownComponent")
             ELSE IF script_exists[n] THEN TRUE
             ELSE IF components[n].optional THEN NoOpStart(TRUE, "")
             ELSE NoOpStart(FALSE, "MissingExecutable")]_vars

\* start_component has skipped an optional component whose script is missing.
C21_Witness ==
    /\ last.op = "start_component"
    /\ Excluded(last.name)
    /\ last.ret
    /\ ~last.spawned
    /\ ~InMap(processes, last.name)

\* The alphabetical order of the component names.
NameOrder == <<"a", "b", "c">>

\* The enumeration of S by ascending startup_delay and, among equal delays,
\* by ascending name.
ByDelayThenName(S) ==
    CHOOSE s \in Perms(S) :
        \A i, j \in 1..Len(s) :
            i < j =>
                \/ components[s[i]].startup_delay < components[s[j]].startup_delay
                \/ /\ components[s[i]].startup_delay = components[s[j]].startup_delay
                   /\ Pos(NameOrder, s[i]) < Pos(NameOrder, s[j])

\* C26: every round of get_startup_order appends the ready components by
\* ascending startup delay and, among equal delays, by ascending name.
C26_OrderDeterministic ==
    [][ordered' # ordered
          => ordered' = ordered \o ByDelayThenName(Ready(remaining, ordered))]_vars

C24_AtMostOneInstance ==
    \A n \in Names : live[n] <= 1

\* c was restarted while its process was running: the old process was
\* waited for, a new one runs.
C24_Witness ==
    /\ last.op \in {"restart_component", "monitor_step"}
    /\ last.name = "c"
    /\ last.spawned
    /\ last.ret
    /\ live["c"] = 1
    /\ RestartCount(processes, "c") = 0
    /\ Len(processes) = 3

\* C29: stop_component on a name without an entry returns True and sends
\* nothing; on a component with an entry it sends terminate() first, and
\* kill() only after the grace period has expired with the process still
\* running: a process that exits within the period gets no kill().
C29_GracefulBeforeForced ==
    [][last'.op = "stop_component"
          => IF ~InMap(processes, last'.name)
             THEN /\ last'.ret
                  /\ last'.sent = <<>>
                  /\ processes' = processes
             ELSE /\ last'.sent # <<>>
                  /\ Head(last'.sent) = "terminate"
                  /\ "kill" \in Range(last'.sent)
                        => /\ last'.grace = "expired"
                           /\ last'.sent = <<"terminate", "kill">>
                  /\ last'.grace = "exited" => last'.sent = <<"terminate">>]_vars

\* A stop whose grace period expired: terminate(), then kill().
C29_Witness ==
    /\ last.op = "stop_component"
    /\ last.ret
    /\ last.grace = "expired"
    /\ last.sent = <<"terminate", "kill">>
    /\ ~InMap(processes, last.name)

\* What the network would answer to the check named layer of the last
\* check_component_health call on a running process.
LayerPassed(layer) ==
    IF layer = "poll" THEN Alive(processes, last.name)
    ELSE IF layer = "port" THEN last.port_ok
    ELSE last.http_ok

\* C22: check_component_health returns True exactly when the process is
\* running, the port (if the component has one) accepts a connection and the
\* health endpoint (if the component has a port and an endpoint) answers 200;
\* a check is made only after all the checks before it have passed, and a
\* component without a port is healthy exactly when its process is running.
C22_LayeredProbe ==
    last.op = "check_health" /\ last.name \in Names =>
        LET n == last.name
            has_port == components[n].port
            has_http == components[n].port /\ components[n].health_endpoint
        IN  /\ last.ret <=> /\ Alive(processes, n)
                            /\ has_port => last.port_ok
                            /\ has_http => last.http_ok
            /\ \A i \in 1..Len(last.layers) :
                  /\ \A j \in 1..(i - 1) : LayerPassed(last.layers[j])
                  /\ last.layers[i] = "port" => has_port
                  /\ last.layers[i] = "http" => has_http
            /\ ~has_port => (last.ret <=> Alive(processes, n))

\* The port of c answered and its health endpoint did not: all three checks
\* were made and c is unhealthy.
C22_Witness ==
    /\ last.op = "check_health"
    /\ last.name = "c"
    /\ last.layers = <<"poll", "port", "http">>
    /\ last.port_ok
    /\ ~last.http_ok
    /\ ~last.ret

\* The status the last report gives n (the set of them).
Reported(n) == {p[2] : p \in {q \in last.report : q[1] = n}}

\* C25: the report of get_system_status lists exactly the components that
\* are not excluded, each with one status: not_running without an entry,
\* stopped with an entry whose process has exited, healthy / unhealthy with
\* a running process whose health check succeeded / failed.
C25_StatusReport ==
    last.op = "status" =>
        /\ {p[1] : p \in last.report} = Active
        /\ \A n \in Active :
              Reported(n) =
                 IF ~InMap(processes, n) THEN {"not_running"}
                 ELSE IF ~Alive(processes, n) THEN {"stopped"}
                 ELSE IF <<n, TRUE>> \in last.probed THEN {"healthy"}
                 ELSE {"unhealthy"}
        /\ \A n \in Active : Alive(processes, n) =>
              Cardinality({p \in last.probed : p[1] = n}) = 1

\* A report that leaves out the excluded a and shows b not running and c
\* unhealthy.
C25_Witness ==
    /\ last.op = "status"
    /\ Excluded("a")
    /\ last.report = {<<"b", "not_running">>, <<"c", "unhealthy">>}

\* C30: get_startup_order, check_component_dependencies,
\* check_component_health and get_system_status leave self.processes (keys,
\* order, processes, restart counters) and the registry as they were (a
\* process may exit on its own in the meantime).
C30_QueriesLeaveMapAlone ==
    [][(\/ last'.op \in {"check_health", "check_dependencies", "status",
                         "get_startup_order", "order_returned"}
        \/ pc = "resolving" /\ last'.op # "process_exits")
          => /\ processes' = processes
             /\ components' = components
             /\ script_exists' = script_exists]_vars

\* A health check was made on b, whose process has exited, with a and c in
\* the dict.
C30_Witness ==
    /\ last.op = "check_health"
    /\ last.name = "b"
    /\ Len(processes) = 3
    /\ ~Alive(processes, "b")
    /\ Alive(processes, "c")

\* C28: an exception raised inside a monitor iteration that no component
\* operation handles does not end the monitor loop: once it has been logged
\* and the loop has slept, control is at the head of the loop with the
\* running flag and the running map as they were, and the next iteration
\* begins if the running flag is true.
C28_LoopSurvivesError ==
    [][(pc = "monitoring" /\ last'.op = "monitor_error")
         => /\ pc' = "idle"
            /\ running' = running
            /\ processes' = processes
            /\ (running => (ENABLED MonitorBegin)')]_vars

C28_Witness ==
    /\ last.op = "monitor_error"
    /\ running
    /\ processes # <<>>
    /\ ENABLED MonitorBegin

\* A signal that has interrupted main ends the run: the handler's shutdown,
\* and the one of the finally clause when the try was open, run to their end
\* and the interpreter exits.
SignalEndsRun ==
    (phase = "handler") ~> (phase = "exited")

\* C27: after a signal delivered while monitor_loop is running no further
\* iteration of the loop starts (none is in progress once the running flag
\* is false), shutdown runs, and when the run is over every component that
\* was in self.processes when the signal arrived has been stopped: it has
\* left self.processes.
C27_SignalStopsAll ==
    /\ ~running => pc # "monitoring"
    /\ (signals > 0 /\ to_stop # {}) => shutdowns > 0
    /\ phase = "exited" => \A n \in to_stop : ~InMap(processes, n)

\* C31: the signal handler never runs in the middle of a start or a stop:
\* a process that has been spawned is recorded in self.processes by the step
\* that spawned it (no lost start), and the stop_all of the handler does not
\* call terminate() again on a process whose stop_component the signal
\* interrupted (no double stop).
C31_HandlerSerialized ==
    [][/\ \A n \in Names : live'[n] > live[n] => Alive(processes', n)
       /\ (/\ last'.op = "stop_all_step"
           /\ interrupted.op = "stop_component"
           /\ last'.name = interrupted.name)
             => ~InMap(processes, last'.name)]_vars

\* C32: when start_component returns True for a component whose script
\* exists, the component has an entry in self.processes whose process is
\* running at that moment, whether or not it had an entry before the call.
C32_StartSuccessMeansAlive ==
    [][(/\ last'.op \in {"start_component", "start_all_step"}
        /\ last'.ret
        /\ last'.name \in Names
        /\ script_exists[last'.name])
          => Alive(processes', last'.name)]_vars

\* C33: when start_all returns True, every active component (every
\* component that is not an optional one whose script is missing) has an
\* entry in self.processes.
C33_StartAllSuccessStartsAll ==
    [][(last'.op = "start_all" /\ last'.ret)
          => \A n \in Active : InMap(processes', n)]_vars

\* C34: in the stop_all of a shutdown, whatever starts and restarts came
\* before, a component is stopped only when none of the components still
\* to be stopped depends on it: dependents are stopped before their
\* dependencies.
C34_DependentsStoppedFirst ==
    [][(last'.op = "stop_all_step" /\ ~running)
          => \A d \in Range(stop_queue') : last'.name \notin Deps(d)]_vars

\* C35: when the shutdown of a run of main is over and the program has
\* exited, no process spawned during the run is still running, wherever the
\* signal arrived.
C35_NoProcessSurvivesShutdown ==
    (phase = "exited" /\ shutdowns > 0) => \A n \in Names : live[n] = 0

\* C36: once shutdown has set the running flag to False, no process is
\* spawned for the rest of the run: no step after that adds a running
\* process or an entry to self.processes.
C36_NoSpawnAfterShutdownBegins ==
    [][~running => /\ \A n \in Names : live'[n] <= live[n]
                   /\ Keys(processes') \subseteq Keys(processes)
                   /\ ~running']_vars

\* A shutdown that a signal began in the middle of monitor_loop is stopping
\* the components.
C36_Witness ==
    /\ ~running
    /\ to_stop # {}
    /\ last.op = "stop_all_step"
    /\ last.ret

\* C37: start_component, stop_component and restart_component of a name
\* leave every other component as it was, whether they succeed or fail: it
\* has an entry afterwards exactly if it had one before, and the entry
\* (process, restart_count) is the same.
C37_OthersUntouched ==
    [][last'.op \in {"start_component", "stop_component", "restart_component"}
          => \A m \in Names \ {last'.name} :
                /\ InMap(processes', m) <=> InMap(processes, m)
                /\ InMap(processes, m) => Entry(processes', m) = Entry(processes, m)]_vars

\* A restart has replaced the process of one component while another
\* component had an entry.
C37_Witness ==
    /\ last.op = "restart_component"
    /\ last.spawned
    /\ last.ret
    /\ \E m \in Names \ {last.name} : InMap(processes, m)

C39_SummaryConsistent ==
    last.op = "status" =>
        LET sm == last.summary IN
        /\ sm.total_components = Cardinality({p[1] : p \in last.report})
        /\ sm.healthy_components <= sm.running_components
        /\ sm.running_components <= sm.total_components
        /\ sm.critical_components_running <= sm.total_critical_components

====
